---- MODULE Spec2Model ----
(***************************************************************************)
(* DevTimeTracker: the timer state machine (tracker.py, class TimeTracker) *)
(* on top of the SQLite store (database.py).                               *)
(*                                                                         *)
(* The durable store changes only at conn.commit(); every action below is  *)
(* the code of one call from one commit to the next, so every state is a   *)
(* commit boundary: the store a process termination at that point leaves   *)
(* behind.  The wall clock (datetime.utcnow) is a variable of its own that *)
(* the environment moves.                                                  *)
(***************************************************************************)
EXTENDS Integers, Sequences, FiniteSets, TLC

\* ------------------------------------------------------------------ bounds
MaxProjects == 2      \* project rows the store may hold
MaxSessions == 3      \* session rows the store may hold
MaxClock    == 2      \* the wall clock ranges over 0..MaxClock ticks
TicksPerSec == 2      \* clock resolution: ticks in one second
SecsPerDay  == 1      \* calendar scale: seconds in one day
DaysPerWeek == 2      \* calendar scale: days in one week
DaysPerMonth == 4     \* calendar scale: days in one month

VARIABLES
    projects,            \* table projects: row id = index; [name, archived]
    sessions,            \* table sessions: row id = index
    app_state,           \* table app_state: key -> value, for the keys present
    now,                 \* the wall clock, in ticks
    _active_session_id,   \* TimeTracker._active_session_id
    _active_project_id,   \* TimeTracker._active_project_id
    _session_start,       \* TimeTracker._session_start
    _recovered,           \* TimeTracker._recovered
    pc,                  \* where the process is: "ready", "down", or the line
                         \* of the commit the call in flight executes next
    frame,               \* the locals of the call in flight
    result,              \* what the last completed call returned or raised
    lost                 \* history: the Running state (session, project) a
                         \* process held between calls when it went away

store   == <<projects, sessions, app_state>>
tracker == <<_active_session_id, _active_project_id, _session_start, _recovered>>
vars    == <<projects, sessions, app_state, now, _active_session_id,
             _active_project_id, _session_start, _recovered, pc, frame, result,
             lost>>

\* ------------------------------------------------------------ value space
\* Python None / SQL NULL / an absent value: the empty tuple; a present
\* value v of an optional field is <<v>>.
None == <<>>
NULL == <<>>
Some(v) == <<v>>

\* str(n) for n >= 0: the decimal digits, most significant first.
RECURSIVE str(_)
str(n) == IF n < 10 THEN <<n>> ELSE str(n \div 10) \o <<n % 10>>

\* int(s) of a digit string.
RECURSIVE int(_)
int(s) == IF Len(s) = 1 THEN s[1]
          ELSE int(SubSeq(s, 1, Len(s) - 1)) * 10 + s[Len(s)]

\* datetime.isoformat(): seconds field and sub-second field of a clock value.
isoformat(t) == <<t \div TicksPerSec, t % TicksPerSec>>

\* datetime.fromisoformat()
fromisoformat(x) == x[1] * TicksPerSec + x[2]

\* int((b - a).total_seconds()): the difference in seconds, truncated
\* toward zero as Python's int() truncates a float.
total_seconds_int(b, a) ==
    IF b - a >= 0 THEN (b - a) \div TicksPerSec
    ELSE -((a - b) \div TicksPerSec)

\* str.strip() on a name, a tuple of characters
RECURSIVE lstrip(_)
lstrip(s) == IF s # <<>> /\ Head(s) = " " THEN lstrip(Tail(s)) ELSE s
RECURSIVE rstrip(_)
rstrip(s) == IF s # <<>> /\ s[Len(s)] = " "
             THEN rstrip(SubSeq(s, 1, Len(s) - 1)) ELSE s
strip(s) == rstrip(lstrip(s))

ProjectIds == 1..MaxProjects

\* One letter for each project the store may hold.
Letters == <<"a", "b", "c", "d", "e", "f">>

\* The names a caller may pass to add_project: a name no project has yet
\* (names being interchangeable, the next unused letter), the first letter
\* behind a blank, and the name of any existing project.
RawNames ==
    {<<Letters[Len(projects) + 1]>>, <<" ", Letters[1]>>}
    \cup {projects[i].name : i \in DOMAIN projects}

\* The locals of a call in flight: the call, start_timer's project_id,
\* stop_session's session_id and duration, start_session's cur.lastrowid.
NoFrame == [op |-> "none", project_id |-> 0, session_id |-> 0,
            duration |-> 0, lastrowid |-> 0]
NoResult == [op |-> "none", exc |-> "", val |-> 0]
Returned(op, v) == [op |-> op, exc |-> "", val |-> v]
Raised(op, e) == [op |-> op, exc |-> e, val |-> 0]

\* ------------------------------------------------------------------ store
\* app_state with no rows
EmptyTable == [k \in {} |-> <<>>]

\* get_state(conn, key)
get_state(key) == IF key \in DOMAIN app_state THEN Some(app_state[key]) ELSE None

\* set_state(conn, key, value): INSERT OR REPLACE, then commit
set_state(st, key, value) ==
    [k \in DOMAIN st \cup {key} |-> IF k = key THEN value ELSE st[k]]

\* clear_state(conn, key): DELETE, then commit
clear_state(st, key) == [k \in DOMAIN st \ {key} |-> st[k]]

\* get_active_session without "AND s.end_time IS NULL"
get_active_session_AnyRow ==
    LET session_id == get_state("active_session_id") IN
    IF session_id = None THEN None
    ELSE LET id == int(session_id[1]) IN
         IF id \in DOMAIN sessions
         THEN Some([id |-> id, project_id |-> sessions[id].project_id,
                    start_time |-> sessions[id].start_time])
         ELSE None

\* get_active_session(conn): the session row the pointer names, if it is
\* open (the JOIN on projects always matches: project_id is a foreign key).
get_active_session ==
    LET session_id == get_state("active_session_id") IN
    IF session_id = None THEN None
    ELSE LET id == int(session_id[1]) IN
         IF id \in DOMAIN sessions /\ sessions[id].end_time = NULL
            /\ sessions[id].project_id \in DOMAIN projects
         THEN Some([id |-> id, project_id |-> sessions[id].project_id,
                    start_time |-> sessions[id].start_time])
         ELSE None

\* SUM(duration) over a set of session ids
RECURSIVE SumDuration(_)
SumDuration(S) ==
    IF S = {} THEN 0
    ELSE LET i == CHOOSE j \in S : TRUE
         IN sessions[i].duration + SumDuration(S \ {i})

\* get_project_total_seconds(conn, project_id)
get_project_total_seconds(p) ==
    SumDuration({i \in DOMAIN sessions :
                    sessions[i].project_id = p /\ sessions[i].end_time # NULL})

\* ---------------------------------------------------------------- queries
\* Comparison of two timestamp strings as SQLite compares TEXT: field by
\* field, a timestamp with no fractional part (sub-second field 0, which
\* isoformat() leaves out) being a prefix of, and so less than, every
\* timestamp of the same second that has one.
IsoLeq(a, b) == a[1] < b[1] \/ (a[1] = b[1] /\ a[2] <= b[2])

\* The first ten characters of a timestamp string: its date.
date_of(iso) == iso[1] \div SecsPerDay

\* start_time >= date_from, date_from being a date string "YYYY-MM-DD": a
\* proper prefix of every timestamp of that date, so less than each of them.
GeqDateString(iso, d) == date_of(iso) >= d

\* d + "T23:59:59": the timestamp string of the last second of date d, with
\* no fractional part.
EndOfDay(d) == <<(d + 1) * SecsPerDay - 1, 0>>

\* d + "T00:00:00"
StartOfDay(d) == <<d * SecsPerDay, 0>>

\* get_sessions joining the non-archived projects only
get_sessions_rows_ListedOnly(project_id, date_from, date_to) ==
    {i \in DOMAIN sessions :
        /\ sessions[i].project_id \in DOMAIN projects
        /\ ~projects[sessions[i].project_id].archived
        /\ sessions[i].end_time # NULL
        /\ (project_id # None /\ project_id[1] # 0) =>
              sessions[i].project_id = project_id[1]
        /\ date_from # None => GeqDateString(sessions[i].start_time, date_from[1])
        /\ date_to # None => IsoLeq(sessions[i].start_time, EndOfDay(date_to[1]))}

\* The rows of get_sessions' WHERE clause (lines 133-146): closed, joined to
\* their project, the filters added for the arguments that are truthy.
get_sessions_rows(project_id, date_from, date_to) ==
    {i \in DOMAIN sessions :
        /\ sessions[i].project_id \in DOMAIN projects
        /\ sessions[i].end_time # NULL
        /\ (project_id # None /\ project_id[1] # 0) =>
              sessions[i].project_id = project_id[1]
        /\ date_from # None => GeqDateString(sessions[i].start_time, date_from[1])
        /\ date_to # None => IsoLeq(sessions[i].start_time, EndOfDay(date_to[1]))}

\* ORDER BY s.start_time DESC over a set of row ids
RECURSIVE OrderByStartDesc(_)
OrderByStartDesc(S) ==
    IF S = {} THEN <<>>
    ELSE LET m == CHOOSE i \in S :
                    \A j \in S : IsoLeq(sessions[j].start_time, sessions[i].start_time)
         IN <<m>> \o OrderByStartDesc(S \ {m})

\* get_sessions(conn, project_id, date_from, date_to): the ids of the rows
\* fetched, in order
get_sessions(project_id, date_from, date_to) ==
    OrderByStartDesc(get_sessions_rows(project_id, date_from, date_to))

\* ORDER BY name: names compared character by character, the blank before
\* the letters, a prefix before its extensions.
CharOrd(c) == IF c = " " THEN 0 ELSE CHOOSE k \in DOMAIN Letters : Letters[k] = c
RECURSIVE NameLeq(_, _)
NameLeq(a, b) ==
    IF a = <<>> THEN TRUE
    ELSE IF b = <<>> THEN FALSE
    ELSE IF Head(a) = Head(b) THEN NameLeq(Tail(a), Tail(b))
    ELSE CharOrd(Head(a)) < CharOrd(Head(b))
RECURSIVE OrderByName(_)
OrderByName(S) ==
    IF S = {} THEN <<>>
    ELSE LET m == CHOOSE i \in S :
                    \A j \in S : NameLeq(projects[i].name, projects[j].name)
         IN <<m>> \o OrderByName(S \ {m})

\* get_all_projects(conn): the ids of the rows with archived = 0, by name
get_all_projects ==
    OrderByName({i \in DOMAIN projects : ~projects[i].archived})

\* get_project_seconds_for_range(conn, project_id, start, end)
get_project_seconds_for_range(p, start, end) ==
    SumDuration({i \in DOMAIN sessions :
                    /\ sessions[i].project_id = p
                    /\ sessions[i].end_time # NULL
                    /\ IsoLeq(start, sessions[i].start_time)
                    /\ IsoLeq(sessions[i].start_time, end)})

\* date.today() (the machine's time zone taken to be UTC), and lines
\* 174-175 on the scaled calendar: the first day of today's week and month.
today == date_of(isoformat(now))
week_start == today - (today % DaysPerWeek)
month_start == today - (today % DaysPerMonth)

\* get_dashboard_stats(conn): one row for each project of get_all_projects
get_dashboard_stats ==
    LET all == get_all_projects
    IN [k \in DOMAIN all |->
          LET pid == all[k]
          IN [id |-> pid,
              name |-> projects[pid].name,
              today |-> get_project_seconds_for_range(
                            pid, StartOfDay(today), EndOfDay(today)),
              week |-> get_project_seconds_for_range(
                            pid, StartOfDay(week_start), EndOfDay(today)),
              month |-> get_project_seconds_for_range(
                            pid, StartOfDay(month_start), EndOfDay(today)),
              total |-> get_project_total_seconds(pid)]]

\* ---------------------------------------------------------------- tracker
\* TimeTracker.is_running
is_running == _active_session_id # None

\* TimeTracker.active_project_id
active_project_id == _active_project_id

\* TimeTracker.recovered
recovered == _recovered

\* TimeTracker.list_projects()
list_projects == get_all_projects

\* TimeTracker.elapsed_seconds()
elapsed_seconds ==
    IF _session_start = None THEN 0
    ELSE total_seconds_int(now, _session_start[1])

\* get_project_total without lines 124-125
get_project_total_NoLive(p) == get_project_total_seconds(p)

\* TimeTracker.get_project_total(project_id)
get_project_total(p) ==
    get_project_total_seconds(p)
    + (IF is_running /\ _active_project_id = Some(p) THEN elapsed_seconds ELSE 0)

\* get_dashboard adding the live seconds to the total alone
get_dashboard_LiveInTotalOnly ==
    LET stats == get_dashboard_stats
        live == elapsed_seconds
    IN IF is_running
       THEN [k \in DOMAIN stats |->
               IF Some(stats[k].id) = _active_project_id
               THEN [stats[k] EXCEPT !.total = @ + live]
               ELSE stats[k]]
       ELSE stats

\* TimeTracker.get_dashboard()
get_dashboard ==
    LET stats == get_dashboard_stats
        live == elapsed_seconds
    IN IF is_running
       THEN [k \in DOMAIN stats |->
               IF Some(stats[k].id) = _active_project_id
               THEN [stats[k] EXCEPT !.today = @ + live, !.week = @ + live,
                                     !.month = @ + live, !.total = @ + live]
               ELSE stats[k]]
       ELSE stats

\* TimeTracker.get_history(project_id, date_from, date_to)
get_history(project_id, date_from, date_to) ==
    get_sessions(project_id, date_from, date_to)

\* TimeTracker.export_csv(path, project_id, date_from, date_to): the lines
\* written to the file (the header, then one line for each session) and the
\* value returned
export_csv(project_id, date_from, date_to) ==
    LET rows == get_history(project_id, date_from, date_to)
    IN [file |-> <<"Session ID">> \o rows, returns |-> Len(rows)]

Init ==
    /\ projects = <<>>
    /\ sessions = <<>>
    /\ app_state = EmptyTable
    /\ now = 0
    /\ _active_session_id = None
    /\ _active_project_id = None
    /\ _session_start = None
    /\ _recovered = FALSE
    /\ pc = "ready"
    /\ frame = NoFrame
    /\ result = NoResult
    /\ lost = None

\* ---------------------------------------------------------------- actions
Idle == /\ _active_session_id' = None
        /\ _active_project_id' = None
        /\ _session_start' = None

\* create_project whose name is UNIQUE among the non-archived rows only
create_project_UniqueAmongListed(name) ==
    IF \E i \in DOMAIN projects :
          ~projects[i].archived /\ projects[i].name = strip(name)
    THEN /\ result' = Raised("add_project", "IntegrityError")
         /\ UNCHANGED projects
    ELSE /\ projects' = Append(projects, [name |-> strip(name), archived |-> FALSE])
         /\ result' = Returned("add_project", Len(projects) + 1)

\* create_project: INSERT (name UNIQUE over every row, archived or not), commit
create_project(name) ==
    IF \E i \in DOMAIN projects : projects[i].name = strip(name)
    THEN /\ result' = Raised("add_project", "IntegrityError")
         /\ UNCHANGED projects
    ELSE /\ projects' = Append(projects, [name |-> strip(name), archived |-> FALSE])
         /\ result' = Returned("add_project", Len(projects) + 1)

\* TimeTracker.add_project(name)
AddProject(name) ==
    /\ pc = "ready"
    /\ Len(projects) < MaxProjects
    /\ create_project(name)
    /\ UNCHANGED <<sessions, app_state, now, lost, tracker, pc, frame>>

\* rename_project: UPDATE projects SET name = ? WHERE id = ? with the
\* stripped name, commit; name is UNIQUE over every other row, and an id
\* that names no row updates nothing.
rename_project(p, new_name) ==
    IF p \notin DOMAIN projects
    THEN /\ result' = Returned("rename_project", 0)
         /\ UNCHANGED projects
    ELSE IF \E i \in DOMAIN projects : i # p /\ projects[i].name = strip(new_name)
    THEN /\ result' = Raised("rename_project", "IntegrityError")
         /\ UNCHANGED projects
    ELSE /\ projects' = [projects EXCEPT ![p].name = strip(new_name)]
         /\ result' = Returned("rename_project", 0)

\* TimeTracker.rename_project(project_id, new_name)
RenameProject(p, new_name) ==
    /\ pc = "ready"
    /\ rename_project(p, new_name)
    /\ UNCHANGED <<sessions, app_state, now, lost, tracker, pc, frame>>

\* delete_project: UPDATE projects SET archived = 1 WHERE id = ?, commit
delete_project(p) ==
    projects' = [i \in DOMAIN projects |->
                    IF i = p THEN [projects[i] EXCEPT !.archived = TRUE]
                    ELSE projects[i]]

\* remove_project without the check of lines 71-72
RemoveProject_NoGuard(p) ==
    /\ pc = "ready"
    /\ delete_project(p)
    /\ result' = Returned("remove_project", 0)
    /\ UNCHANGED <<sessions, app_state, now, lost, tracker, pc, frame>>

\* TimeTracker.remove_project(project_id)
RemoveProject(p) ==
    /\ pc = "ready"
    /\ IF _active_project_id = Some(p)
       THEN /\ result' = Raised("remove_project", "ValueError")
            /\ UNCHANGED projects
       ELSE /\ delete_project(p)
            /\ result' = Returned("remove_project", 0)
    /\ UNCHANGED <<sessions, app_state, now, lost, tracker, pc, frame>>

\* stop_session taking the duration from the tracker's own _session_start
\* rather than from the stored start_time
StopSessionUpdate_ClientElapsed(op, p) ==
    LET session_id == _active_session_id[1]
        duration == elapsed_seconds
    IN /\ sessions' = [sessions EXCEPT
                           ![session_id].end_time = isoformat(now),
                           ![session_id].duration = duration]
       /\ frame' = [op |-> op, project_id |-> p, session_id |-> session_id,
                    duration |-> duration, lastrowid |-> 0]
       /\ pc' = "stop_session:114"
       /\ result' = NoResult
       /\ UNCHANGED <<projects, app_state, now, lost, tracker>>

\* stop_session lines 101-113 for the running session: read start_time,
\* take end = utcnow(), UPDATE end_time and duration, commit.  With no such
\* row (lines 104-105) stop_session returns 0 and the caller goes on.
StopSessionUpdate(op, p) ==
    LET session_id == _active_session_id[1] IN
    IF session_id \in DOMAIN sessions
    THEN LET start == fromisoformat(sessions[session_id].start_time)
             end == now
             duration == total_seconds_int(end, start)
         IN /\ sessions' = [sessions EXCEPT
                                ![session_id].end_time = isoformat(end),
                                ![session_id].duration = duration]
            /\ frame' = [op |-> op, project_id |-> p, session_id |-> session_id,
                         duration |-> duration, lastrowid |-> 0]
            /\ pc' = "stop_session:114"
            /\ result' = NoResult
            /\ UNCHANGED <<projects, app_state, now, lost, tracker>>
    ELSE /\ Idle
         /\ IF op = "stop_timer"
            THEN /\ result' = Returned("stop_timer", 0)
                 /\ UNCHANGED <<pc, frame>>
            ELSE /\ result' = NoResult
                 /\ pc' = "start_session:91"
                 /\ frame' = [NoFrame EXCEPT !.op = op, !.project_id = p]
         /\ UNCHANGED <<store, now, lost, _recovered>>

\* start_session storing start_time without its sub-second part
StartSessionInsert_WholeSecondStart(p) ==
    IF p \in DOMAIN projects
    THEN /\ sessions' = Append(sessions,
                               [project_id |-> p,
                                start_time |-> <<now \div TicksPerSec, 0>>,
                                end_time |-> NULL, duration |-> 0])
         /\ frame' = [NoFrame EXCEPT !.op = "start_timer", !.project_id = p,
                                     !.session_id = frame.session_id,
                                     !.lastrowid = Len(sessions) + 1]
         /\ pc' = "start_session:95"
         /\ result' = NoResult
         /\ UNCHANGED <<projects, app_state, now, lost, tracker>>
    ELSE /\ result' = Raised("start_timer", "IntegrityError")
         /\ pc' = "ready"
         /\ frame' = NoFrame
         /\ UNCHANGED <<store, now, lost, tracker>>

\* start_session lines 90-94: INSERT the session row with start_time =
\* utcnow(), commit.  The foreign key on project_id (PRAGMA foreign_keys =
\* ON) makes the INSERT raise for a project_id that names no row.  The
\* frame keeps in session_id the session start_timer stopped on the way, if
\* it stopped one.
StartSessionInsert(p) ==
    IF p \in DOMAIN projects
    THEN /\ sessions' = Append(sessions,
                               [project_id |-> p, start_time |-> isoformat(now),
                                end_time |-> NULL, duration |-> 0])
         /\ frame' = [NoFrame EXCEPT !.op = "start_timer", !.project_id = p,
                                     !.session_id = frame.session_id,
                                     !.lastrowid = Len(sessions) + 1]
         /\ pc' = "start_session:95"
         /\ result' = NoResult
         /\ UNCHANGED <<projects, app_state, now, lost, tracker>>
    ELSE /\ result' = Raised("start_timer", "IntegrityError")
         /\ pc' = "ready"
         /\ frame' = NoFrame
         /\ UNCHANGED <<store, now, lost, tracker>>

\* start_timer without the implicit stop of lines 91-92
StartTimer_NoImplicitStop(p) ==
    /\ pc = "ready"
    /\ Len(sessions) < MaxSessions
    /\ StartSessionInsert(p)

\* TimeTracker.start_timer(project_id), up to its first commit
StartTimer(p) ==
    /\ pc = "ready"
    /\ Len(sessions) < MaxSessions
    /\ IF is_running THEN StopSessionUpdate("start_timer", p)
                     ELSE StartSessionInsert(p)

\* stop_timer whose Idle branch also drops the recovered flag
StopTimer_IdleAcknowledges ==
    /\ pc = "ready"
    /\ IF is_running
       THEN StopSessionUpdate("stop_timer", 0)
       ELSE /\ result' = Returned("stop_timer", 0)
            /\ _recovered' = FALSE
            /\ UNCHANGED <<store, now, lost, _active_session_id,
                           _active_project_id, _session_start, pc, frame>>

\* TimeTracker.stop_timer(), up to its first commit
StopTimer ==
    /\ pc = "ready"
    /\ IF is_running
       THEN StopSessionUpdate("stop_timer", 0)
       ELSE /\ result' = Returned("stop_timer", 0)
            /\ UNCHANGED <<store, now, lost, tracker, pc, frame>>

\* stop_session line 114: clear_state("active_session_id")
StopSessionClearSession ==
    /\ pc = "stop_session:114"
    /\ app_state' = clear_state(app_state, "active_session_id")
    /\ pc' = "stop_session:115"
    /\ UNCHANGED <<projects, sessions, now, lost, tracker, frame, result>>

\* stop_session lines 115-116: clear_state("active_project_id"), return
\* duration; then stop_timer lines 101-104, and for start_timer line 93.
StopSessionClearProject ==
    /\ pc = "stop_session:115"
    /\ app_state' = clear_state(app_state, "active_project_id")
    /\ Idle
    /\ IF frame.op = "stop_timer"
       THEN /\ result' = Returned("stop_timer", frame.duration)
            /\ pc' = "ready"
            /\ frame' = NoFrame
       ELSE /\ pc' = "start_session:91"
            /\ frame' = [NoFrame EXCEPT !.op = frame.op,
                                        !.project_id = frame.project_id,
                                        !.session_id = frame.session_id]
            /\ UNCHANGED result
    /\ UNCHANGED <<projects, sessions, now, lost, _recovered>>

\* start_timer line 93 after its implicit stop: start_session lines 90-94
StartSessionAfterStop ==
    /\ pc = "start_session:91"
    /\ StartSessionInsert(frame.project_id)

\* start_session line 95: set_state("active_session_id", str(cur.lastrowid))
StartSessionSetSession ==
    /\ pc = "start_session:95"
    /\ app_state' = set_state(app_state, "active_session_id", str(frame.lastrowid))
    /\ pc' = "start_session:96"
    /\ UNCHANGED <<projects, sessions, now, lost, tracker, frame, result>>

\* start_timer without its line 95
StartSessionSetProject_NoStartedAt ==
    /\ pc = "start_session:96"
    /\ app_state' = set_state(app_state, "active_project_id", str(frame.project_id))
    /\ _active_session_id' = Some(frame.lastrowid)
    /\ _active_project_id' = Some(frame.project_id)
    /\ result' = Returned("start_timer", 0)
    /\ pc' = "ready"
    /\ frame' = NoFrame
    /\ UNCHANGED <<projects, sessions, now, lost, _recovered, _session_start>>

\* start_session lines 96-97: set_state("active_project_id", str(project_id)),
\* return cur.lastrowid; then start_timer lines 93-95.
StartSessionSetProject ==
    /\ pc = "start_session:96"
    /\ app_state' = set_state(app_state, "active_project_id", str(frame.project_id))
    /\ _active_session_id' = Some(frame.lastrowid)
    /\ _active_project_id' = Some(frame.project_id)
    /\ _session_start' = Some(now)
    /\ result' = Returned("start_timer", 0)
    /\ pc' = "ready"
    /\ frame' = NoFrame
    /\ UNCHANGED <<projects, sessions, now, lost, _recovered>>

\* discard_timer that DELETEs the running session's row instead of closing it
DiscardTimer_DeletesRow ==
    /\ pc = "ready"
    /\ IF is_running
       THEN LET session_id == _active_session_id[1] IN
            /\ sessions' = [i \in 1..(Len(sessions) - 1) |->
                              IF i < session_id THEN sessions[i]
                              ELSE sessions[i + 1]]
            /\ frame' = [NoFrame EXCEPT !.op = "discard_timer",
                                        !.session_id = session_id]
            /\ pc' = "discard_timer:114"
            /\ result' = NoResult
            /\ UNCHANGED <<projects, app_state, now, lost, tracker>>
       ELSE /\ result' = Returned("discard_timer", 0)
            /\ UNCHANGED <<store, now, lost, tracker, pc, frame>>

\* discard_timer storing the elapsed time instead of 0
DiscardTimer_KeepsElapsed ==
    /\ pc = "ready"
    /\ IF is_running
       THEN LET session_id == _active_session_id[1] IN
            /\ sessions' = [i \in DOMAIN sessions |->
                              IF i = session_id
                              THEN [sessions[i] EXCEPT
                                      !.end_time = isoformat(now),
                                      !.duration = total_seconds_int(
                                          now, fromisoformat(sessions[i].start_time))]
                              ELSE sessions[i]]
            /\ frame' = [NoFrame EXCEPT !.op = "discard_timer",
                                        !.session_id = session_id]
            /\ pc' = "discard_timer:114"
            /\ result' = NoResult
            /\ UNCHANGED <<projects, app_state, now, lost, tracker>>
       ELSE /\ result' = Returned("discard_timer", 0)
            /\ UNCHANGED <<store, now, lost, tracker, pc, frame>>

\* TimeTracker.discard_timer(), up to its first commit (lines 107-113)
DiscardTimer ==
    /\ pc = "ready"
    /\ IF is_running
       THEN LET session_id == _active_session_id[1] IN
            /\ sessions' = [i \in DOMAIN sessions |->
                              IF i = session_id
                              THEN [sessions[i] EXCEPT !.end_time = isoformat(now),
                                                       !.duration = 0]
                              ELSE sessions[i]]
            /\ frame' = [NoFrame EXCEPT !.op = "discard_timer",
                                        !.session_id = session_id]
            /\ pc' = "discard_timer:114"
            /\ result' = NoResult
            /\ UNCHANGED <<projects, app_state, now, lost, tracker>>
       ELSE /\ result' = Returned("discard_timer", 0)
            /\ UNCHANGED <<store, now, lost, tracker, pc, frame>>

\* discard_timer line 114: clear_state("active_session_id")
DiscardClearSession ==
    /\ pc = "discard_timer:114"
    /\ app_state' = clear_state(app_state, "active_session_id")
    /\ pc' = "discard_timer:115"
    /\ UNCHANGED <<projects, sessions, now, lost, tracker, frame, result>>

\* discard_timer lines 115-118: clear_state("active_project_id"), go Idle
DiscardClearProject ==
    /\ pc = "discard_timer:115"
    /\ app_state' = clear_state(app_state, "active_project_id")
    /\ Idle
    /\ result' = Returned("discard_timer", 0)
    /\ pc' = "ready"
    /\ frame' = NoFrame
    /\ UNCHANGED <<projects, sessions, now, lost, _recovered>>

\* acknowledge_recovery that leaves _recovered as it is
AcknowledgeRecovery_NoReset ==
    /\ pc = "ready"
    /\ result' = Returned("acknowledge_recovery", 0)
    /\ UNCHANGED <<store, now, lost, tracker, pc, frame>>

\* TimeTracker.acknowledge_recovery()
AcknowledgeRecovery ==
    /\ pc = "ready"
    /\ _recovered' = FALSE
    /\ result' = Returned("acknowledge_recovery", 0)
    /\ UNCHANGED <<store, now, lost, _active_session_id, _active_project_id,
                   _session_start, pc, frame>>

\* The process goes away: every in-memory value is lost, the store keeps
\* what was committed.
ProcessGone ==
    /\ pc' = "down"
    /\ Idle
    /\ _recovered' = FALSE
    /\ frame' = NoFrame
    /\ result' = NoResult
    /\ lost' = IF pc = "ready" /\ is_running
               THEN Some(<<_active_session_id[1], _active_project_id[1]>>)
               ELSE None
    /\ UNCHANGED <<store, now>>

\* The process is terminated, between calls or at a commit boundary of one.
Crash ==
    /\ pc # "down"
    /\ ProcessGone

\* close() that stops the running timer on the way out
Close_StopsTimer ==
    /\ pc = "ready"
    /\ pc' = "down"
    /\ Idle
    /\ _recovered' = FALSE
    /\ frame' = NoFrame
    /\ result' = NoResult
    /\ lost' = IF is_running
               THEN Some(<<_active_session_id[1], _active_project_id[1]>>)
               ELSE None
    /\ IF is_running
       THEN /\ sessions' = [sessions EXCEPT
                               ![_active_session_id[1]].end_time = isoformat(now),
                               ![_active_session_id[1]].duration =
                                   total_seconds_int(now, _session_start[1])]
            /\ app_state' = clear_state(clear_state(app_state, "active_session_id"),
                                        "active_project_id")
       ELSE UNCHANGED <<sessions, app_state>>
    /\ UNCHANGED <<projects, now>>

\* TimeTracker.close(): conn.close(), nothing else
Close ==
    /\ pc = "ready"
    /\ ProcessGone

\* __init__ whose _restore_active_session forgets line 47
Construct_NoFlag ==
    /\ pc = "down"
    /\ LET session == get_active_session IN
       IF session # None
       THEN /\ _active_session_id' = Some(session[1].id)
            /\ _active_project_id' = Some(session[1].project_id)
            /\ _session_start' = Some(fromisoformat(session[1].start_time))
       ELSE Idle
    /\ _recovered' = FALSE
    /\ pc' = "ready"
    /\ result' = Returned("__init__", 0)
    /\ lost' = None
    /\ UNCHANGED <<store, now, frame>>

\* TimeTracker.__init__ on the existing store, with _restore_active_session
Construct ==
    /\ pc = "down"
    /\ LET session == get_active_session IN
       IF session # None
       THEN /\ _active_session_id' = Some(session[1].id)
            /\ _active_project_id' = Some(session[1].project_id)
            /\ _session_start' = Some(fromisoformat(session[1].start_time))
            /\ _recovered' = TRUE
       ELSE /\ Idle
            /\ _recovered' = FALSE
    /\ pc' = "ready"
    /\ result' = Returned("__init__", 0)
    /\ lost' = None
    /\ UNCHANGED <<store, now, frame>>

\* The wall clock advances.
Tick ==
    /\ now < MaxClock
    /\ now' = now + 1
    /\ UNCHANGED <<store, tracker, pc, frame, result, lost>>

\* The wall clock is set back (utcnow is not monotonic).
ClockSetBack ==
    /\ now > 0
    /\ now' = now - 1
    /\ UNCHANGED <<store, tracker, pc, frame, result, lost>>

\* The timer calls of one TimeTracker, each from commit to commit.
TimerCalls ==
    \/ \E p \in ProjectIds : StartTimer(p)
    \/ StopTimer
    \/ StopSessionClearSession
    \/ StopSessionClearProject
    \/ StartSessionAfterStop
    \/ StartSessionSetSession
    \/ StartSessionSetProject
    \/ DiscardTimer
    \/ DiscardClearSession
    \/ DiscardClearProject

\* One instance of TimeTracker serving calls, the process never terminated,
\* the clock never set back.
NextOneTracker ==
    \/ \E name \in RawNames : AddProject(name)
    \/ \E p \in ProjectIds : RemoveProject(p)
    \/ TimerCalls
    \/ AcknowledgeRecovery
    \/ Tick

\* ------------------------------------------------ calls from a second thread
\* The connection is sqlite3.connect(path) with check_same_thread left at
\* its default: conn.execute from any thread but the one that constructed
\* the TimeTracker raises sqlite3.ProgrammingError before it does anything.
\* A call from a second thread falls between any two statements of the
\* first thread's call in flight (any pc but "down").

\* a second thread's start_timer on a connection that accepts every thread
ThreadStartTimer_AnyThread(p) ==
    /\ pc # "down"
    /\ Len(sessions) < MaxSessions
    /\ ~is_running
    /\ p \in DOMAIN projects
    /\ sessions' = Append(sessions,
                          [project_id |-> p, start_time |-> isoformat(now),
                           end_time |-> NULL, duration |-> 0])
    /\ app_state' = set_state(set_state(app_state, "active_session_id",
                                        str(Len(sessions) + 1)),
                              "active_project_id", str(p))
    /\ _active_session_id' = Some(Len(sessions) + 1)
    /\ _active_project_id' = Some(p)
    /\ _session_start' = Some(now)
    /\ result' = Returned("start_timer", 0)
    /\ UNCHANGED <<projects, now, lost, _recovered, pc, frame>>

\* start_timer(project_id) from a second thread: Running or not, the first
\* conn.execute it comes to (stop_session line 101 through stop_timer, or
\* start_session line 91) raises; nothing was assigned before it.
ThreadStartTimer(p) ==
    /\ pc # "down"
    /\ result' = Raised("start_timer", "ProgrammingError")
    /\ UNCHANGED <<store, now, lost, tracker, pc, frame>>

\* stop_timer() from a second thread: returns 0 at line 99 when not running,
\* else stop_session's conn.execute raises.
ThreadStopTimer ==
    /\ pc # "down"
    /\ result' = IF is_running THEN Raised("stop_timer", "ProgrammingError")
                              ELSE Returned("stop_timer", 0)
    /\ UNCHANGED <<store, now, lost, tracker, pc, frame>>

\* discard_timer() from a second thread: returns at line 108 when not
\* running, else conn.execute of line 109 raises.
ThreadDiscardTimer ==
    /\ pc # "down"
    /\ result' = IF is_running THEN Raised("discard_timer", "ProgrammingError")
                              ELSE Returned("discard_timer", 0)
    /\ UNCHANGED <<store, now, lost, tracker, pc, frame>>

ThreadCalls ==
    \/ \E p \in ProjectIds : ThreadStartTimer(p)
    \/ ThreadStopTimer
    \/ ThreadDiscardTimer

\* One TimeTracker called from the thread that constructed it and from a
\* second thread.
NextThreads ==
    \/ NextOneTracker
    \/ ThreadCalls

\* One instance of TimeTracker whose projects are also renamed.
NextProjects ==
    \/ NextOneTracker
    \/ \E p \in ProjectIds : \E name \in RawNames : RenameProject(p, name)

\* Processes come and go on one store.
Next ==
    \/ NextOneTracker
    \/ Crash
    \/ Close
    \/ Construct

Spec == Init /\ [][Next]_vars

SpecOneTracker == Init /\ [][NextOneTracker]_vars

\* TimeTrackers one after the other on one store, each closed between
\* calls (close()) before the next is constructed.
NextCleanRestart ==
    \/ NextOneTracker
    \/ Close
    \/ Construct

SpecCleanRestart == Init /\ [][NextCleanRestart]_vars

SpecProjects == Init /\ [][NextProjects]_vars

SpecThreads == Init /\ [][NextThreads]_vars

\* A store that already holds MaxProjects projects, as add_project leaves it.
InitWithProjects ==
    /\ projects = [i \in ProjectIds |-> [name |-> <<Letters[i]>>, archived |-> FALSE]]
    /\ sessions = <<>>
    /\ app_state = EmptyTable
    /\ now = 0
    /\ _active_session_id = None
    /\ _active_project_id = None
    /\ _session_start = None
    /\ _recovered = FALSE
    /\ pc = "ready"
    /\ frame = NoFrame
    /\ result = NoResult
    /\ lost = None

\* One instance of TimeTracker under a wall clock that may also be set back.
NextWallClock ==
    \/ TimerCalls
    \/ Tick
    \/ ClockSetBack

SpecWallClock == InitWithProjects /\ [][NextWallClock]_vars

\* ------------------------------------------------- the store called directly
SessionIds == 1..MaxSessions

\* database.stop_session(conn, session_id) called on the store itself, up to
\* its first commit (lines 101-113): with no such row it returns 0; with a
\* row, open or closed, it takes end = utcnow(), UPDATEs end_time and
\* duration, commits.
stop_session(session_id) ==
    /\ pc = "ready"
    /\ IF session_id \in DOMAIN sessions
       THEN LET start == fromisoformat(sessions[session_id].start_time)
                end == now
                duration == total_seconds_int(end, start)
            IN /\ sessions' = [sessions EXCEPT
                                   ![session_id].end_time = isoformat(end),
                                   ![session_id].duration = duration]
               /\ frame' = [NoFrame EXCEPT !.op = "stop_session",
                                           !.session_id = session_id,
                                           !.duration = duration]
               /\ pc' = "db.stop_session:114"
               /\ result' = NoResult
       ELSE /\ result' = Returned("stop_session", 0)
            /\ UNCHANGED <<sessions, pc, frame>>
    /\ UNCHANGED <<projects, app_state, now, lost, tracker>>

\* the direct call's line 114: clear_state("active_session_id")
stop_session_114 ==
    /\ pc = "db.stop_session:114"
    /\ app_state' = clear_state(app_state, "active_session_id")
    /\ pc' = "db.stop_session:115"
    /\ UNCHANGED <<projects, sessions, now, lost, tracker, frame, result>>

\* the direct call's lines 115-116: clear_state("active_project_id"),
\* return duration
stop_session_115 ==
    /\ pc = "db.stop_session:115"
    /\ app_state' = clear_state(app_state, "active_project_id")
    /\ result' = Returned("stop_session", frame.duration)
    /\ pc' = "ready"
    /\ frame' = NoFrame
    /\ UNCHANGED <<projects, sessions, now, lost, tracker>>

\* One TimeTracker and a caller of the store's stop_session on one connection.
NextStore ==
    \/ TimerCalls
    \/ Tick
    \/ \E id \in SessionIds : stop_session(id)
    \/ stop_session_114
    \/ stop_session_115

SpecStore == InitWithProjects /\ [][NextStore]_vars

\* ================================================================ claims
\* Vocabulary of the claims, stated on the tables themselves.
OpenSessions == {i \in DOMAIN sessions : sessions[i].end_time = NULL}
OpenSessionsNext == {i \in DOMAIN sessions' : sessions'[i].end_time = NULL}
HasKey(st, k) == k \in DOMAIN st
NoPointer(st) == ~HasKey(st, "active_session_id") /\ ~HasKey(st, "active_project_id")
TrackerIdle == /\ ~is_running
               /\ active_project_id = None
               /\ elapsed_seconds = 0

\* ---------------------------------------------------------------- C1
\* C1: over any sequence of start_timer, stop_timer and discard_timer calls
\* of one TimeTracker that is never terminated, the store holds at most one
\* session row whose end_time is null, at every commit boundary.
C1_AtMostOneOpenSession == Cardinality(OpenSessions) <= 1

\* start_timer has switched from one running session to the next.
C1_Witness ==
    /\ pc = "ready"
    /\ is_running
    /\ Len(sessions) >= 2
    /\ Cardinality(OpenSessions) = 1
    /\ result = Returned("start_timer", 0)

\* ---------------------------------------------------------------- C2
\* C2: when a process goes away while Running on session S of project P
\* (between calls), the TimeTracker constructed next on the store is
\* running, on session S and project P, with recovered true; and recovered
\* turns false only by acknowledge_recovery() (or with the process).
C2_Recovery ==
    [][ /\ (Construct /\ lost # None) =>
             /\ is_running'
             /\ _active_session_id' = Some(lost[1][1])
             /\ active_project_id' = Some(lost[1][2])
             /\ recovered' = TRUE
        /\ (recovered /\ ~recovered') =>
             \/ AcknowledgeRecovery
             \/ pc' = "down"
      ]_vars

\* A tracker recovered from a store that a Running process left behind; it
\* has served a call since and still reads recovered.
C2_Witness ==
    /\ pc = "ready"
    /\ recovered
    /\ is_running
    /\ result.op = "remove_project"
    /\ get_state("active_session_id") = Some(str(_active_session_id[1]))
    /\ get_state("active_project_id") = Some(str(active_project_id[1]))

\* A difference of d ticks in whole seconds, truncated toward zero, and
\* rounded down: each stated by the inequalities that define it.
Seconds == (-(MaxClock + 1))..(MaxClock + 1)
WholeSeconds(d) ==
    CHOOSE q \in Seconds :
        IF d >= 0 THEN q >= 0 /\ q * TicksPerSec <= d /\ d < (q + 1) * TicksPerSec
                  ELSE q <= 0 /\ q * TicksPerSec >= d /\ d > (q - 1) * TicksPerSec
FloorSeconds(d) ==
    CHOOSE q \in Seconds : q * TicksPerSec <= d /\ d < (q + 1) * TicksPerSec
\* The clock value a stored timestamp stands for.
Ticks(iso) == iso[1] * TicksPerSec + iso[2]

\* ---------------------------------------------------------------- C3
\* The part of C3 about the implicit stop: start_timer(B) while Running on
\* A closes A's session in its first commit (end_time set, duration the
\* whole seconds since A's stored start_time), B's row being inserted by a
\* later commit only, and returns Running on B, whose session is open.
C3_SwitchStep ==
    /\ \A p \in ProjectIds :
         (StartTimer(p) /\ is_running) =>
            LET A == _active_session_id[1] IN
            /\ sessions'[A].end_time # NULL
            /\ sessions'[A].duration =
                 WholeSeconds(now - Ticks(sessions[A].start_time))
            /\ Len(sessions') = Len(sessions)
    /\ (StartSessionAfterStop /\ Len(sessions') > Len(sessions)) =>
            /\ sessions[frame.session_id].end_time # NULL
            /\ sessions'[Len(sessions')].end_time = NULL
    /\ (StartSessionSetProject /\ frame.session_id # 0) =>
            /\ pc' = "ready"
            /\ is_running'
            /\ active_project_id' = Some(frame.project_id)
            /\ _active_session_id'[1] \in OpenSessionsNext
            /\ sessions'[_active_session_id'[1]].project_id = frame.project_id

\* C3: start_timer(B) called while Running on project A first closes A's
\* session (end_time set, duration = whole seconds since A's stored
\* start_time) and only afterwards inserts B's session; on return the tracker
\* is Running on B and B's session is the only one with null end_time.
C3_SwitchClosesThenStarts ==
    [][ /\ C3_SwitchStep
        /\ (StartSessionSetProject /\ frame.session_id # 0) =>
              OpenSessionsNext = {_active_session_id'[1]}
      ]_vars

\* What holds of C3 on the code: everything but "the only one".
C3_SwitchExceptOnlyOpen == [][C3_SwitchStep]_vars

\* ---------------------------------------------------------------- C4
\* C4: start_session is one atomic unit: at every commit boundary inside
\* start_session (each a state a process termination leaves durable) the new
\* session row and both app_state keys are all present, or none of them is.
C4_StartSessionAtomic ==
    pc \in {"start_session:95", "start_session:96"} =>
        LET row == frame.lastrowid \in DOMAIN sessions
            keyS == get_state("active_session_id") = Some(str(frame.lastrowid))
            keyP == get_state("active_project_id") = Some(str(frame.project_id))
        IN \/ row /\ keyS /\ keyP
           \/ ~row /\ ~keyS /\ ~keyP

\* ---------------------------------------------------------------- C5
\* C5: at every commit boundary, if the key active_session_id is present then
\* the session it names has a null end_time.
C5_PointerNeverNamesClosed ==
    HasKey(app_state, "active_session_id") =>
        LET id == int(app_state["active_session_id"]) IN
        /\ id \in DOMAIN sessions
        /\ sessions[id].end_time = NULL

\* The sum of the durations of project p's closed rows of a sessions table,
\* row by row.
RECURSIVE ClosedTotalUpTo(_, _, _)
ClosedTotalUpTo(ss, p, n) ==
    IF n = 0 THEN 0
    ELSE ClosedTotalUpTo(ss, p, n - 1)
         + (IF ss[n].project_id = p /\ ss[n].end_time # NULL
            THEN ss[n].duration ELSE 0)
ClosedTotal(ss, p) == ClosedTotalUpTo(ss, p, Len(ss))
OtherRowsSame(id) ==
    /\ Len(sessions') = Len(sessions)
    /\ \A i \in DOMAIN sessions : i # id => sessions'[i] = sessions[i]

\* ---------------------------------------------------------------- C6
C6_WhileRunning ==
    \A p \in ProjectIds :
        (pc = "ready" /\ is_running /\ active_project_id = Some(p)) =>
            get_project_total(p) = ClosedTotal(sessions, p) + elapsed_seconds
C6_StopStep ==
    /\ (StopTimer /\ is_running) =>
          /\ sessions'[_active_session_id[1]].duration = frame'.duration
          /\ \A p \in ProjectIds :
                ClosedTotal(sessions', p) =
                    ClosedTotal(sessions, p)
                    + (IF active_project_id = Some(p) THEN frame'.duration ELSE 0)
    /\ frame.op = "stop_timer" =>
          \A p \in ProjectIds : ClosedTotal(sessions', p) = ClosedTotal(sessions, p)
    /\ (StopSessionClearProject /\ frame.op = "stop_timer") =>
          /\ result' = Returned("stop_timer", frame.duration)
          /\ \A p \in ProjectIds :
                get_project_total(p)' = ClosedTotal(sessions', p)

\* C6: while a session on p is running, get_project_total(p) is the sum of
\* the durations of p's closed sessions plus elapsed_seconds(); when
\* stop_timer() returns it is the sum of p's closed sessions alone, which is
\* the stored total from before the stop plus the duration just persisted.
C6_ProjectTotal == []C6_WhileRunning /\ [][C6_StopStep]_vars

\* stop_timer has returned a duration of a second or more, now in the total.
C6_Witness ==
    /\ pc = "ready"
    /\ result.op = "stop_timer"
    /\ result.val >= 1
    /\ \E p \in ProjectIds : get_project_total(p) >= 1

\* ---------------------------------------------------------------- C7
\* stop_timer() while Running, the stored duration being end - start in
\* seconds, rounded down (floor) or truncated toward zero.
C7_StopStep(floor) ==
    /\ (StopTimer /\ is_running) =>
          LET id == _active_session_id[1] IN
          /\ sessions'[id].end_time # NULL
          /\ Ticks(sessions'[id].end_time) = now
          /\ sessions'[id].start_time = sessions[id].start_time
          /\ sessions'[id].duration =
               LET d == Ticks(sessions'[id].end_time) - Ticks(sessions[id].start_time)
               IN IF floor THEN FloorSeconds(d) ELSE WholeSeconds(d)
          /\ OtherRowsSame(id)
    /\ (StopSessionClearProject /\ frame.op = "stop_timer") =>
          /\ pc' = "ready"
          /\ TrackerIdle'
          /\ NoPointer(app_state')
          /\ sessions' = sessions
          /\ sessions[frame.session_id].end_time # NULL
          /\ result' = Returned("stop_timer", sessions'[frame.session_id].duration)

\* C7: stop_timer() while Running leaves the tracker Idle, sets the session's
\* end_time, stores duration = floor(end - stored start_time) in seconds,
\* clears both pointer keys and returns the duration that was stored.
C7_StopStoresFloor == [][C7_StopStep(TRUE)]_vars

\* C7 as amended: the same, the duration being end - stored start_time in
\* seconds truncated toward zero (the floor whenever end >= start).
C7_StopStoresTruncated == [][C7_StopStep(FALSE)]_vars

\* stop_timer has returned after the clock was set back under the session:
\* the stored duration is 0 where the floor is -1.
C7_Witness ==
    /\ pc = "ready"
    /\ result = Returned("stop_timer", 0)
    /\ \E i \in DOMAIN sessions :
          /\ sessions[i].end_time # NULL
          /\ Ticks(sessions[i].end_time) < Ticks(sessions[i].start_time)
          /\ sessions[i].duration = 0

\* ---------------------------------------------------------------- C8
\* C8: stop_timer() while Idle returns 0 and changes nothing: not the
\* projects, sessions or app_state, nor the tracker's fields, the recovered
\* flag included.
C8_StopWhileIdle ==
    [][ (StopTimer /\ ~is_running) =>
            /\ result' = Returned("stop_timer", 0)
            /\ pc' = "ready"
            /\ UNCHANGED <<store, tracker>>
      ]_vars

\* stop_timer has returned 0 on a tracker that is Idle and reads recovered.
C8_Witness ==
    /\ pc = "ready"
    /\ ~is_running
    /\ recovered
    /\ result = Returned("stop_timer", 0)
    /\ \A i \in DOMAIN sessions : sessions[i].duration # 0

\* ---------------------------------------------------------------- C9
\* C9: discard_timer() while Running closes the active session with end_time
\* set and duration 0, clears both pointer keys and leaves the tracker Idle,
\* no project total changing on the way; while Idle it changes neither the
\* store nor the tracker.
C9_Discard ==
    [][ /\ (DiscardTimer /\ is_running) =>
              LET id == _active_session_id[1] IN
              /\ sessions'[id].end_time # NULL
              /\ sessions'[id].duration = 0
              /\ OtherRowsSame(id)
        /\ DiscardClearProject =>
              /\ pc' = "ready"
              /\ TrackerIdle'
              /\ NoPointer(app_state')
              /\ sessions' = sessions
              /\ sessions[frame.session_id].end_time # NULL
              /\ sessions[frame.session_id].duration = 0
        /\ (DiscardTimer \/ frame.op = "discard_timer") =>
              \A p \in ProjectIds :
                  ClosedTotal(sessions', p) = ClosedTotal(sessions, p)
        /\ (DiscardTimer /\ ~is_running) =>
              /\ pc' = "ready"
              /\ UNCHANGED <<store, tracker>>
      ]_vars

\* discard_timer has returned on a session that ran for a second or more.
C9_Witness ==
    /\ pc = "ready"
    /\ ~is_running
    /\ result.op = "discard_timer"
    /\ NoPointer(app_state)
    /\ \E i \in DOMAIN sessions :
          /\ sessions[i].end_time # NULL
          /\ sessions[i].duration = 0
          /\ Ticks(sessions[i].end_time) - Ticks(sessions[i].start_time) >= TicksPerSec
          /\ ClosedTotal(sessions, sessions[i].project_id) = 0

\* ---------------------------------------------------------------- C10
\* C10: remove_project(p) for the project p of the running session raises
\* and changes nothing: p stays non-archived, the session and its pointer
\* stay, the tracker stays Running on p.
C10_RemoveActiveProject ==
    [][ \A p \in ProjectIds :
            (RemoveProject(p) /\ is_running /\ active_project_id = Some(p)) =>
                /\ result' = Raised("remove_project", "ValueError")
                /\ UNCHANGED <<store, tracker>>
                /\ pc' = "ready"
      ]_vars

\* remove_project has raised on the running, non-archived project.
C10_Witness ==
    /\ pc = "ready"
    /\ result = Raised("remove_project", "ValueError")
    /\ is_running
    /\ ~projects[active_project_id[1]].archived
    /\ _active_session_id[1] \in OpenSessions
    /\ HasKey(app_state, "active_session_id")

\* ---------------------------------------------------------------- C11
\* The store holds an active session: the key active_session_id names a row
\* whose end_time is null.
ActiveSessionInStore ==
    \E i \in OpenSessions : get_state("active_session_id") = Some(str(i))

\* C11: the recovered flag is one-shot.  A TimeTracker reads recovered on
\* construction iff the store held an active session; acknowledge_recovery()
\* makes it read false; and no call of the instance (start, stop, discard,
\* project operations) ever turns it from false to true, so it stays false
\* after the acknowledgement and is never true on a tracker constructed with
\* no active session.
C11_RecoveredOneShot ==
    [][ /\ Construct => (recovered' <=> ActiveSessionInStore)
        /\ AcknowledgeRecovery => ~recovered'
        /\ (~recovered /\ recovered') => Construct
      ]_vars

\* A tracker that recovered a session (the store's pointer pair is the half
\* written one only a terminated start_session leaves, so this tracker did
\* not start the session itself), was acknowledged, has served a project
\* operation since and reads recovered false, still running.
C11_Witness ==
    /\ pc = "ready"
    /\ is_running
    /\ ~recovered
    /\ HasKey(app_state, "active_session_id")
    /\ ~HasKey(app_state, "active_project_id")
    /\ result.op = "add_project"

\* ---------------------------------------------------------------- C12
\* C12: close() does not stop a running timer.  close() while Running on
\* session S changes nothing in the store: S's row keeps its null end_time
\* and its duration 0, the app_state keys are as they were, and the key
\* active_session_id names S; the TimeTracker constructed next on the store
\* is Running on S with recovered true.
C12_CloseKeepsRunningSession ==
    [][ /\ (Close /\ is_running) =>
              LET S == _active_session_id[1] IN
              /\ UNCHANGED store
              /\ S \in DOMAIN sessions'
              /\ sessions'[S].end_time = NULL
              /\ sessions'[S].duration = 0
              /\ HasKey(app_state', "active_session_id")
              /\ int(app_state'["active_session_id"]) = S
              /\ lost' = Some(<<S, active_project_id[1]>>)
        /\ (Construct /\ lost # None) =>
              /\ is_running'
              /\ recovered'
              /\ _active_session_id' = Some(lost[1][1])
              /\ sessions'[lost[1][1]].end_time = NULL
              /\ UNCHANGED store
      ]_vars

\* The process is gone from a tracker that had been Running for a second or
\* more: the row is open with duration 0 and both pointer keys name it.
C12_Witness ==
    /\ pc = "down"
    /\ lost # None
    /\ sessions[lost[1][1]].end_time = NULL
    /\ sessions[lost[1][1]].duration = 0
    /\ now - Ticks(sessions[lost[1][1]].start_time) >= TicksPerSec
    /\ get_state("active_session_id") = Some(str(lost[1][1]))
    /\ get_state("active_project_id") = Some(str(lost[1][2]))

\* ---------------------------------------------------------------- C13
\* C13: a mutating call that fails leaves the store and the tracker as they
\* were before the call: the step in which a call raises changes neither,
\* and when the raising call is a start_timer that was entered while Running
\* on session A (the frame still names A), A's row is still open and the
\* tracker is still Running on A.
C13_FailedCallChangesNothing ==
    [][ result'.exc # "" =>
            /\ pc' = "ready"
            /\ UNCHANGED <<store, tracker>>
            /\ (frame.op = "start_timer" /\ frame.session_id # 0) =>
                   /\ sessions'[frame.session_id].end_time = NULL
                   /\ is_running'
                   /\ _active_session_id' = Some(frame.session_id)
      ]_vars

\* ---------------------------------------------------------------- C14
\* C14: stop_session(id) on an id that names no session, or a session that
\* is already closed, returns 0 at once and changes nothing in the store:
\* no end_time or duration is rewritten and no app_state key is cleared.
C14_StopSessionNoOp ==
    [][ \A id \in SessionIds :
            (stop_session(id) /\ (id \notin DOMAIN sessions
                                  \/ sessions[id].end_time # NULL)) =>
                /\ result' = Returned("stop_session", 0)
                /\ pc' = "ready"
                /\ UNCHANGED store
      ]_vars

\* What holds of C14 on the code: the case of an id that names no session.
C14_StopSessionNoRow ==
    [][ \A id \in SessionIds :
            (stop_session(id) /\ id \notin DOMAIN sessions) =>
                /\ result' = Returned("stop_session", 0)
                /\ pc' = "ready"
                /\ UNCHANGED <<store, tracker>>
      ]_vars

\* ---------------------------------------------------------------- C15
\* The key active_session_id is present and names a closed session.
StalePointer ==
    /\ HasKey(app_state, "active_session_id")
    /\ \E i \in DOMAIN sessions :
          /\ app_state["active_session_id"] = str(i)
          /\ sessions[i].end_time # NULL

\* C15: get_active_session returns null whenever the key active_session_id
\* is absent or names a session whose end_time is not null; and a
\* TimeTracker constructed on a store with such a stale pointer starts Idle
\* with recovered false.
C15_StalePointerNotActive ==
    /\ []((~HasKey(app_state, "active_session_id") \/ StalePointer)
            => get_active_session = None)
    /\ [][ (Construct /\ StalePointer) =>
              /\ TrackerIdle'
              /\ ~recovered'
              /\ UNCHANGED store
         ]_vars

\* A TimeTracker has been constructed on a store whose pointer names a
\* closed session: it is Idle and does not read recovered.
C15_Witness ==
    /\ pc = "ready"
    /\ result.op = "__init__"
    /\ StalePointer
    /\ TrackerIdle
    /\ ~recovered

\* ---------------------------------------------------------------- C16
\* C16: a session row is mutated exactly once.  A row is created open, with
\* end_time null and duration 0, and stays so (start_time and project_id
\* fixed) until the one step that closes it; a closed row never changes
\* again, whatever calls and restarts follow; and no row is ever deleted.
C16_RowMutatedOnce ==
    /\ [](\A i \in OpenSessions : sessions[i].duration = 0)
    /\ [][ /\ Len(sessions') >= Len(sessions)
           /\ \A i \in DOMAIN sessions :
                 IF sessions[i].end_time # NULL
                 THEN sessions'[i] = sessions[i]
                 ELSE /\ sessions'[i].start_time = sessions[i].start_time
                      /\ sessions'[i].project_id = sessions[i].project_id
                      /\ sessions'[i].end_time = NULL => sessions'[i] = sessions[i]
           /\ \A i \in DOMAIN sessions' \ DOMAIN sessions :
                 /\ sessions'[i].end_time = NULL
                 /\ sessions'[i].duration = 0
         ]_vars

\* A tracker recovered by a restart is running a later session while the
\* first session, stopped with a duration of a second or more, and a
\* discarded one are in the table as they were closed.
C16_Witness ==
    /\ pc = "ready"
    /\ recovered
    /\ Len(sessions) = 3
    /\ sessions[1].end_time # NULL
    /\ sessions[1].duration >= 1
    /\ sessions[1].duration = WholeSeconds(Ticks(sessions[1].end_time)
                                           - Ticks(sessions[1].start_time))
    /\ sessions[2].end_time # NULL
    /\ sessions[2].duration = 0
    /\ _active_session_id = Some(3)

\* ---------------------------------------------------------------- C17
\* C17: elapsed_seconds() is never negative: it is 0 when Idle, and when
\* Running it is now - startedAt in whole seconds, or 0 if the clock reads
\* earlier than startedAt.
C17_ElapsedNeverNegative ==
    /\ elapsed_seconds >= 0
    /\ ~is_running => elapsed_seconds = 0
    /\ is_running =>
          elapsed_seconds = IF now < _session_start[1] THEN 0
                            ELSE WholeSeconds(now - _session_start[1])

\* What holds of C17 on the code: 0 when Idle, the truncated difference
\* when Running, negative or not.
C17_ElapsedTruncated ==
    /\ ~is_running => elapsed_seconds = 0
    /\ is_running => elapsed_seconds = WholeSeconds(now - _session_start[1])

\* ---------------------------------------------------------------- C18
\* The tracker is between calls before and after the step, Running on the
\* same session: two successive readings of elapsed_seconds() can be taken.
SameRunningSession ==
    /\ pc = "ready" /\ pc' = "ready"
    /\ is_running /\ is_running'
    /\ _active_session_id' = _active_session_id

\* stop_timer() or discard_timer() returns from a running session.
StopOrDiscardReturns ==
    \/ StopSessionClearProject /\ frame.op = "stop_timer"
    \/ DiscardClearProject

\* C18: while the tracker stays Running on the same session a reading of
\* elapsed_seconds() is never below the reading before it, and the reading
\* right after stop_timer() or discard_timer() has returned is 0.
C18_ElapsedMonotone ==
    [][ /\ SameRunningSession => elapsed_seconds' >= elapsed_seconds
        /\ StopOrDiscardReturns => elapsed_seconds' = 0
      ]_vars

\* What holds of C18 on the code: the reading after stop or discard is 0.
C18_ZeroAfterStop == [][StopOrDiscardReturns => elapsed_seconds' = 0]_vars

\* ---------------------------------------------------------------- C19
\* The filters a caller may pass: any project or none, any date or none.
Dates == 0..(MaxClock \div (TicksPerSec * SecsPerDay))
ProjectFilters == {None} \cup {Some(p) : p \in ProjectIds}
DateFilters == {None} \cup {Some(d) : d \in Dates}

\* The day a clock value of so many ticks falls on.
DayOf(ticks) == ticks \div (TicksPerSec * SecsPerDay)

\* The closed sessions matching a filter: of the project, if one is given,
\* and started on a day from date_from to date_to, both included.
ClosedMatching(pf, df, dt) ==
    {i \in DOMAIN sessions :
        /\ sessions[i].end_time # NULL
        /\ pf # None => sessions[i].project_id = pf[1]
        /\ df # None => DayOf(Ticks(sessions[i].start_time)) >= df[1]
        /\ dt # None => DayOf(Ticks(sessions[i].start_time)) <= dt[1]}

Elements(s) == {s[k] : k \in DOMAIN s}

\* Called between calls (pc = "ready"),
\* get_history never returns an open session, the running one least of all,
\* nor a session that does not match; export_csv writes the header and one
\* line for each session of get_history and returns the number of those.
C19_HistoryStep(exactly) ==
    pc = "ready" =>
    \A pf \in ProjectFilters, df \in DateFilters, dt \in DateFilters :
        LET h == get_history(pf, df, dt)
            x == export_csv(pf, df, dt)
        IN /\ Elements(h) \cap OpenSessions = {}
           /\ is_running => _active_session_id[1] \notin Elements(h)
           /\ Len(h) = Cardinality(Elements(h))
           /\ Elements(h) \subseteq ClosedMatching(pf, df, dt)
           /\ exactly => Elements(h) = ClosedMatching(pf, df, dt)
           /\ Tail(x.file) = h
           /\ x.returns = Len(x.file) - 1
           /\ Elements(h) = {} => x.returns = 0

\* C19: in every reachable state get_history (and export_csv through it)
\* returns exactly the closed sessions matching the filter, never the
\* session in progress, and export_csv returns the number of session lines
\* written, the header not counted: 0 when nothing matches.
C19_HistoryExactlyClosedMatching == C19_HistoryStep(TRUE)

\* What holds of C19 on the code: the same, get_history returning closed
\* matching sessions only, but not all of them.
C19_HistoryClosedMatchingOnly == C19_HistoryStep(FALSE)

\* ---------------------------------------------------------------- C20
NonArchived == {p \in DOMAIN projects : ~projects[p].archived}

\* C20: get_dashboard(), called between calls, returns exactly one row for
\* each non-archived project (none for a store with no projects; four zeros
\* for a project with no sessions); each row's today, week, month and total
\* are the store's values (get_dashboard_stats; the total being the sum of
\* the project's closed sessions), plus, for the project of the running
\* session and in all four alike, elapsed_seconds().
C20_Dashboard ==
    pc = "ready" =>
        LET d == get_dashboard
            s == get_dashboard_stats
        IN /\ Len(d) = Cardinality(NonArchived)
           /\ {d[k].id : k \in DOMAIN d} = NonArchived
           /\ projects = <<>> => d = <<>>
           /\ DOMAIN s = DOMAIN d
           /\ \A k \in DOMAIN d :
                 LET p == d[k].id
                     live == IF is_running /\ active_project_id = Some(p)
                             THEN elapsed_seconds ELSE 0
                 IN /\ s[k].id = p
                    /\ s[k].total = ClosedTotal(sessions, p)
                    /\ d[k].today = s[k].today + live
                    /\ d[k].week = s[k].week + live
                    /\ d[k].month = s[k].month + live
                    /\ d[k].total = s[k].total + live
                    /\ (\A i \in DOMAIN sessions : sessions[i].project_id # p) =>
                          /\ d[k].today = 0 /\ d[k].week = 0
                          /\ d[k].month = 0 /\ d[k].total = 0

\* A session has been running for a second on one of two projects: its row
\* shows the second in all four totals where the store has none, next to
\* the row of the other project, which has sessions of its own.
C20_Witness ==
    /\ pc = "ready"
    /\ is_running
    /\ elapsed_seconds >= 1
    /\ Len(get_dashboard) = 2
    /\ \E k, j \in DOMAIN get_dashboard :
          /\ k # j
          /\ Some(get_dashboard[k].id) = active_project_id
          /\ get_dashboard[k].today = elapsed_seconds
          /\ get_dashboard[k].total = elapsed_seconds
          /\ get_dashboard_stats[k].total = 0
          /\ get_dashboard[j] = get_dashboard_stats[j]
          /\ \E i \in DOMAIN sessions :
                sessions[i].project_id = get_dashboard[j].id

\* ---------------------------------------------------------------- C21
\* A name without its leading and trailing blanks, said by what it is: the
\* stretch of the name from its first to its last non-blank character.
Trimmed(name) ==
    LET NonBlank == {k \in DOMAIN name : name[k] # " "}
    IN IF NonBlank = {} THEN <<>>
       ELSE LET first == CHOOSE k \in NonBlank : \A j \in NonBlank : k <= j
                last == CHOOSE k \in NonBlank : \A j \in NonBlank : k >= j
            IN SubSeq(name, first, last)

NamesUnique ==
    \A i, j \in DOMAIN projects : i # j => projects[i].name # projects[j].name

\* C21: no two project rows, archived or not, have the same name, in any
\* reachable state; and add_project with a name that, trimmed, is the name
\* of an existing row (an archived one too) raises the constraint error and
\* changes neither projects, sessions, app_state nor the tracker.
C21_NamesUnique ==
    /\ []NamesUnique
    /\ [][ \A name \in RawNames :
             (AddProject(name)
              /\ \E i \in DOMAIN projects : projects[i].name = Trimmed(name)) =>
                 /\ result' = Raised("add_project", "IntegrityError")
                 /\ pc' = "ready"
                 /\ UNCHANGED <<store, tracker>>
         ]_vars

\* add_project has raised on a store whose only project, renamed before,
\* is archived and has a session: the name taken was an archived project's.
C21_Witness ==
    /\ pc = "ready"
    /\ result = Raised("add_project", "IntegrityError")
    /\ Len(projects) = 1
    /\ projects[1].archived
    /\ projects[1].name # <<Letters[1]>>
    /\ Len(sessions) >= 1

\* ---------------------------------------------------------------- C22
RowIds(rows) == {rows[k].id : k \in DOMAIN rows}
ClosedSessionsOf(p) ==
    {i \in DOMAIN sessions : sessions[i].project_id = p /\ sessions[i].end_time # NULL}

\* C22: remove_project(p) on an existing project that is not the active one
\* sets p's archived flag and touches nothing else: the project row is
\* still there with its name, every other project row, every session row
\* and app_state are as before; afterwards p is in neither list_projects()
\* nor get_dashboard(), and get_history returns what it returned before,
\* p's closed sessions among them.
C22_ArchiveIsSoftDelete ==
    [][ \A p \in ProjectIds :
          (RemoveProject(p) /\ p \in DOMAIN projects
                            /\ active_project_id # Some(p)) =>
             /\ result' = Returned("remove_project", 0)
             /\ DOMAIN projects' = DOMAIN projects
             /\ projects'[p].archived
             /\ projects'[p].name = projects[p].name
             /\ \A q \in DOMAIN projects : q # p => projects'[q] = projects[q]
             /\ UNCHANGED <<sessions, app_state, tracker>>
             /\ p \notin Elements(list_projects')
             /\ p \notin RowIds(get_dashboard')
             /\ ClosedSessionsOf(p) \subseteq Elements(get_history(Some(p), None, None)')
             /\ ClosedSessionsOf(p) \subseteq Elements(get_history(None, None, None)')
             /\ \A pf \in ProjectFilters :
                   get_history(pf, None, None)' = get_history(pf, None, None)
      ]_vars

\* remove_project has returned; an archived project has a closed session of
\* a second or more, which get_history still returns, while the tracker is
\* running on another project.
C22_Witness ==
    /\ pc = "ready"
    /\ result = Returned("remove_project", 0)
    /\ is_running
    /\ \E p \in DOMAIN projects :
          /\ projects[p].archived
          /\ active_project_id # Some(p)
          /\ p \notin Elements(list_projects)
          /\ \E i \in Elements(get_history(Some(p), None, None)) :
                sessions[i].duration >= 1

\* ---------------------------------------------------------------- C23
\* The tracker's in-memory active session is the store's: Running exactly
\* when the store holds an active session, and then on that session.
TrackerAgreesWithStore ==
    /\ is_running <=> ActiveSessionInStore
    /\ is_running =>
          /\ _active_session_id[1] \in OpenSessions
          /\ get_state("active_session_id") = Some(str(_active_session_id[1]))

C24_TrackerRefinesStore ==
    pc = "ready" =>
        /\ is_running <=> get_active_session # None
        /\ is_running =>
              /\ _active_session_id = Some(get_active_session[1].id)
              /\ active_project_id = Some(get_active_session[1].project_id)
              /\ _active_session_id[1] \in OpenSessions
              /\ sessions[_active_session_id[1]].project_id = active_project_id[1]
        /\ \/ _active_session_id = None /\ _active_project_id = None
                                          /\ _session_start = None
           \/ _active_session_id # None /\ _active_project_id # None
                                          /\ _session_start # None

\* A tracker that recovered a session is Idle after a start_timer that
\* raised, and the store holds no active session.
C24_Witness ==
    /\ pc = "ready"
    /\ result = Raised("start_timer", "IntegrityError")
    /\ recovered
    /\ ~is_running
    /\ get_active_session = None
    /\ OpenSessions = {}

\* ---------------------------------------------------------------- C25
\* C25: whatever commit boundary of start_timer, stop_timer or
\* discard_timer a process was terminated at, the TimeTracker constructed
\* next reports as active every session whose end_time is null (no open
\* session is left that no tracker runs), and the store goes on holding at
\* most one open session under the calls of the new instance.
C25_NoOrphanOpenSession ==
    /\ pc = "ready" => \A i \in OpenSessions : _active_session_id = Some(i)
    /\ Cardinality(OpenSessions) <= 1

\* ---------------------------------------------------------------- C26
\* stop_timer() called on a running tracker: the duration its first commit
\* stores is the elapsed_seconds() read just before, at the same clock; and
\* the value it returns is the duration stored.
C26_StopStep(always) ==
    /\ (StopTimer /\ is_running) =>
          LET id == _active_session_id[1] IN
          (always \/ _session_start[1] = Ticks(sessions[id].start_time)) =>
              /\ sessions'[id].duration = elapsed_seconds
              /\ frame'.duration = elapsed_seconds
    /\ (StopSessionClearProject /\ frame.op = "stop_timer") =>
          /\ result' = Returned("stop_timer", frame.duration)
          /\ sessions'[frame.session_id].duration = frame.duration

\* C26: no drift between the live display and the persisted duration: when
\* elapsed_seconds() is read and stop_timer() is called with no clock
\* advance in between, the duration stop_timer() persists and returns is
\* that reading.
C26_NoDrift == [][C26_StopStep(TRUE)]_vars

\* What holds of C26 on the code: no drift when the tracker's
\* _session_start is the stored start_time, as it is after a recovery.
C26_NoDriftFromStoredStart == [][C26_StopStep(FALSE)]_vars

\* ---------------------------------------------------------------- C27
\* C27: sessions never overlap in time.  Under a clock that never goes back
\* and with clean restarts only, of any two session rows the one with the
\* smaller id is closed, and its end_time is not later than the start_time
\* of the one with the larger id.
C27_NoOverlap ==
    \A i, j \in DOMAIN sessions :
        i < j => /\ sessions[i].end_time # NULL
                 /\ Ticks(sessions[i].end_time) <= Ticks(sessions[j].start_time)

\* A tracker constructed after a clean restart runs the second session,
\* which began when the first, half a second or more long, had ended.
C27_Witness ==
    /\ pc = "ready"
    /\ recovered
    /\ Len(sessions) = 2
    /\ _active_session_id = Some(2)
    /\ sessions[1].end_time # NULL
    /\ Ticks(sessions[1].end_time) > Ticks(sessions[1].start_time)
    /\ Ticks(sessions[1].end_time) <= Ticks(sessions[2].start_time)

\* ---------------------------------------------------------------- C28
\* C28: between the calls of a TimeTracker the keys active_session_id and
\* active_project_id are both in app_state or both absent, and when they
\* are present active_project_id is the project_id of the session that
\* active_session_id names.
C28_PointerPair ==
    pc = "ready" =>
        /\ HasKey(app_state, "active_session_id")
              <=> HasKey(app_state, "active_project_id")
        /\ HasKey(app_state, "active_session_id") =>
              \E i \in DOMAIN sessions :
                  /\ app_state["active_session_id"] = str(i)
                  /\ app_state["active_project_id"] = str(sessions[i].project_id)

\* ---------------------------------------------------------------- C29
\* C29: whenever the tracker is Running its active project is a project
\* row that is not archived, under any sequence of add_project,
\* remove_project, start_timer, stop_timer and discard_timer calls.
C29_RunningProjectListed ==
    is_running =>
        /\ active_project_id # None
        /\ active_project_id[1] \in DOMAIN projects
        /\ ~projects[active_project_id[1]].archived

\* ---------------------------------------------------------------- C30
\* C30: whenever recovered reads true the tracker is Running on the session
\* found at construction.  A construction that sets recovered leaves the
\* tracker Running, and as long as recovered stays true no call makes the
\* tracker Idle or moves it to another session.
C30_RecoveredSessionKept ==
    [][ /\ (Construct /\ recovered') => is_running'
        /\ (recovered /\ recovered') =>
              /\ is_running'
              /\ _active_session_id' = _active_session_id
      ]_vars

\* What holds of C30 on the code: the construction half.
C30_RecoveredAtConstruction ==
    [][ (Construct /\ recovered') =>
            /\ is_running'
            /\ _active_session_id'[1] \in OpenSessions
      ]_vars

====
